---- MODULE Spec2Model ----
(***************************************************************************)
(* Model of the text-to-sticker path of src/index.js: the /mkstr branch of *)
(* the messages.upsert handler, createSticker with its nested layout       *)
(* solver findOptimalFontSize, the line renderer drawTextWithEmoji and the *)
(* glyph pre-processor processSVG.                                         *)
(*                                                                         *)
(* Lengths are kept in tenths of a pixel so that 0.05 * 512 = 25.6 and     *)
(* 1.2 * fontSize are integers; font sizes are whole pixels as in the      *)
(* code.  A text is a sequence of tokens: a word, or " " for one           *)
(* whitespace character.  The width the canvas measures for a string is    *)
(* its advance in tenths of an em times the font size.                     *)
(***************************************************************************)
EXTENDS Integers, Sequences, FiniteSets, TLC

VARIABLES
    msg,          \* the incoming message: [arg, isReply, quoted]
    pc,           \* position of the request
    text,         \* the text createSticker was called with
    called,       \* createSticker was called
    words,        \* createSticker: words
    fontSize,     \* findOptimalFontSize: fontSize of the loop
    sol,          \* the layout findOptimalFontSize returned (NoSol before)
    lineIdx,      \* createSticker: i of the render loop (1-based)
    parts,        \* drawTextWithEmoji: parts
    partIdx,      \* drawTextWithEmoji: position in parts (1-based)
    cursorX,      \* drawTextWithEmoji: cursorX
    svgString,    \* drawTextWithEmoji: markup handed to loadImage
    drawn,        \* the drawing calls made on the canvas, in order
    ret,          \* the cursor each finished drawTextWithEmoji call returned
    encoded,      \* the canvas was encoded to WebP
    outbox,       \* the sock.sendMessage calls that went out
    failed,       \* the stage that threw inside createSticker's try ("" if none)
    runs,         \* how many times each stage was started
    fetches,      \* the glyph fetches started, in order, as <<line, part>>
    inflight      \* the glyph fetches neither completed nor failed yet

vars == <<msg, pc, text, called, words, fontSize, sol, lineIdx, parts, partIdx,
          cursorX, svgString, drawn, ret, encoded, outbox, failed, runs,
          fetches, inflight>>

----------------------------------------------------------------------------
(* Bounds of the model *)

MaxWords == 4
MaxQuotedWords == 2
MaxRepeat == 39

(* Program constants *)

canvasWidth == 512
canvasHeight == 512
StartFontSize == 120
MinFontSize == 10
FontStep == 2

----------------------------------------------------------------------------
(* Texts *)

WS == " "
\* one emoji code point sequence, written by its code point
EMOJI == "U+1F600"

\* words a user types: two short ones, an emoji, one that fits from 114 px
\* down, one that fits at 10 px only and one that fits at no size
InputWords == {"hi", EMOJI, "long", "vlong", "huge"}

RECURSIVE SeqsUpTo(_, _)
SeqsUpTo(S, n) ==
    IF n = 0 THEN {<<>>}
    ELSE LET shorter == SeqsUpTo(S, n - 1)
         IN  shorter \cup {Append(s, x) : s \in {t \in shorter : Len(t) = n - 1}, x \in S}

RECURSIVE join(_)
\* Array.prototype.join(' ') over a word list, as a token sequence
join(ws) ==
    IF Len(ws) = 0 THEN <<>>
    ELSE IF Len(ws) = 1 THEN <<ws[1]>>
    ELSE <<ws[1], WS>> \o join(Tail(ws))

RECURSIVE trimStart(_)
trimStart(t) == IF t # <<>> /\ Head(t) = WS THEN trimStart(Tail(t)) ELSE t

RECURSIVE trimEnd(_)
trimEnd(t) ==
    IF t # <<>> /\ t[Len(t)] = WS THEN trimEnd(SubSeq(t, 1, Len(t) - 1)) ELSE t

\* String.prototype.trim
trim(t) == trimEnd(trimStart(t))

\* String.prototype.split(/\s+/) on a trimmed text: the empty string splits
\* into one empty word, never into the empty list
split(t) == IF t = <<>> THEN <<"">> ELSE SelectSeq(t, LAMBDA x : x # WS)

\* JavaScript truthiness of a string
truthy(t) == t # <<>>

DefaultText == <<"Teks", WS, "kosong">>

----------------------------------------------------------------------------
(* Measurement and geometry, in tenths of a pixel *)

\* advance of a word in tenths of an em, in the bold narrow font
Em(word) ==
    CASE word = ""       -> 0
      [] word = WS       -> 3
      [] word = "hi"     -> 10
      [] word = EMOJI    -> 10
      [] word = "Teks"   -> 20
      [] word = "kosong" -> 30
      [] word = "long"   -> 40
      [] word = "vlong"  -> 400
      [] word = "huge"   -> 500

\* ctx.measureText(word).width with ctx.font set to size px
measureText(word, size) == Em(word) * size

margin == (canvasWidth * 10 * 5) \div 100
maxWidth == canvasWidth * 10 - margin * 2
maxHeight == canvasHeight * 10 - margin * 2

----------------------------------------------------------------------------
(* The layout solver *)

\* the test that keeps a word on the current line
fitsOnLine(currentLine, currentLineWidth, wordWidth) ==
    currentLineWidth + wordWidth <= maxWidth \/ Len(currentLine) = 0

\* a variant of tooWide that never rejects
tooWide_never(wordWidth) == FALSE

\* the test that rejects a font size for one word
tooWide(wordWidth) == wordWidth > maxWidth

\* a variant of openLine that loses the word that did not fit
openLine_dropsWord(word, wordWidth, spaceWidth) ==
    [currentLine |-> <<>>, currentLineWidth |-> 0]

\* a variant of openLine that forgets the space after the word
openLine_noSpace(word, wordWidth, spaceWidth) ==
    [currentLine |-> <<word>>, currentLineWidth |-> wordWidth]

\* currentLine and currentLineWidth when a word opens a new line
openLine(word, wordWidth, spaceWidth) ==
    [currentLine |-> <<word>>, currentLineWidth |-> wordWidth + spaceWidth]

\* the lines once the word loop has ended
closeLines(lines, currentLine) ==
    IF Len(currentLine) > 0 THEN Append(lines, currentLine) ELSE lines

RECURSIVE packLoop(_, _, _, _, _, _, _)
\* the word loop: i is the next word, rejectWide says whether a word wider
\* than maxWidth breaks the loop (it does inside the size loop only)
packLoop(ws, size, rejectWide, i, lines, currentLine, currentLineWidth) ==
    IF i > Len(ws)
    THEN [lines |-> closeLines(lines, currentLine), canFitAllWords |-> TRUE]
    ELSE LET word == ws[i]
             wordWidth == measureText(word, size)
             spaceWidth == measureText(WS, size)
         IN  IF rejectWide /\ tooWide(wordWidth)
             THEN [lines |-> closeLines(lines, currentLine), canFitAllWords |-> FALSE]
             ELSE IF fitsOnLine(currentLine, currentLineWidth, wordWidth)
                  THEN packLoop(ws, size, rejectWide, i + 1, lines,
                                Append(currentLine, word),
                                currentLineWidth + wordWidth + spaceWidth)
                  ELSE LET o == openLine(word, wordWidth, spaceWidth)
                       IN  packLoop(ws, size, rejectWide, i + 1,
                                    Append(lines, currentLine),
                                    o.currentLine, o.currentLineWidth)

\* one pass of the size loop over the words
pack(ws, size) == packLoop(ws, size, TRUE, 1, <<>>, <<>>, 0)

\* a variant of fallbackPack that still gives up at an oversized word
fallbackPack_rejecting(ws) == packLoop(ws, MinFontSize, TRUE, 1, <<>>, <<>>, 0)

\* the pass of the fallback
fallbackPack(ws) == packLoop(ws, MinFontSize, FALSE, 1, <<>>, <<>>, 0)

\* the line height of a size, in tenths of a pixel
lineHeightOf(size) == size * 12

\* a variant of accepts that forgets the height
accepts_noHeight(p, size) == p.canFitAllWords

\* a variant of accepts that compares with <
accepts_strict(p, size) ==
    p.canFitAllWords /\ Len(p.lines) * lineHeightOf(size) < maxHeight

\* a variant of accepts that measures against the whole canvas
accepts_noMargin(p, size) ==
    p.canFitAllWords /\ Len(p.lines) * lineHeightOf(size) <= canvasHeight * 10

\* the test that accepts a font size
accepts(p, size) ==
    p.canFitAllWords /\ Len(p.lines) * lineHeightOf(size) <= maxHeight

\* what the size loop returns at an accepted size
loopSolution(p, size) ==
    [fontSize |-> size, lines |-> p.lines, lineHeight |-> lineHeightOf(size)]

\* what the fallback returns
fallbackSolution(ws) ==
    [fontSize |-> 10, lines |-> fallbackPack(ws).lines, lineHeight |-> 120]

NoSol == [fontSize |-> 0, lines |-> <<>>, lineHeight |-> 0]

----------------------------------------------------------------------------
(* The line renderer *)

RECURSIVE EmSum(_)
EmSum(toks) == IF toks = <<>> THEN 0 ELSE Em(Head(toks)) + EmSum(Tail(toks))

TextPart(toks) == [kind |-> "text", toks |-> toks]
ImgPart == [kind |-> "img", toks |-> <<EMOJI>>]

RECURSIVE splitParts(_, _)
\* twemoji.parse(text).split(/(<img.*?>)/g).filter(Boolean): every emoji
\* becomes an <img> part, the text between two of them one text part, and
\* empty strings are dropped; run is the text collected so far
splitParts(toks, run) ==
    IF toks = <<>>
    THEN IF run = <<>> THEN <<>> ELSE <<TextPart(run)>>
    ELSE IF Head(toks) = EMOJI
         THEN (IF run = <<>> THEN <<>> ELSE <<TextPart(run)>>)
              \o <<ImgPart>> \o splitParts(Tail(toks), <<>>)
         ELSE splitParts(Tail(toks), IF Head(toks) = "" THEN run ELSE Append(run, Head(toks)))

\* the parts of one line of the layout
partsOf(line) == splitParts(join(line), <<>>)

\* Math.round(fontSize * 0.9), in whole pixels
emojiSizeOf(size) == (size * 9 + 5) \div 10

\* the cursor advance after a drawn glyph, a placeholder and a text part
glyphAdvance(size) == emojiSizeOf(size) * 8

\* a variant of placeholderAdvance that leaves the cursor where it was
placeholderAdvance_none(size) == 0

placeholderAdvance(size) == size * 8
textAdvance(part, size) == EmSum(part.toks) * size

\* the baseline of line i (1-based here, i - 1 in the code)
startY(size) == margin + size * 10
baselineOf(s, i) == startY(s.fontSize) + (i - 1) * s.lineHeight

\* the glyph images above the baseline
emojiYOf(y, size) == y - size * 7

\* a fetched glyph markup: whether the svg element carries width and height,
\* and whether the text 'width=' or 'height=' occurs elsewhere in the markup
\* (stroke-width="2", or the width of a nested element)
Assets == [w : BOOLEAN, h : BOOLEAN, innerW : BOOLEAN, innerH : BOOLEAN]
NoMarkup == [w |-> FALSE, h |-> FALSE, innerW |-> FALSE, innerH |-> FALSE, none |-> TRUE]

\* svgString.includes('width=') and svgString.includes('height=')
includesWidth(svg) == svg.w \/ svg.innerW
includesHeight(svg) == svg.h \/ svg.innerH

\* the test that guards the injection
needsSize(svg) == ~includesWidth(svg) /\ ~includesHeight(svg)

\* svgString.replace('<svg', '<svg width=".." height=".."')
injectSize(svg) == [svg EXCEPT !.w = TRUE, !.h = TRUE]

processSVG(svg) == IF needsSize(svg) THEN injectSize(svg) ELSE svg

----------------------------------------------------------------------------
(* The messages the handler can receive *)

\* n times the same word
repeat(word, n) == [i \in 1..n |-> word]

\* the typed texts: every short text, and long texts of one repeated word
Args ==
    {join(ws) : ws \in SeqsUpTo(InputWords, MaxWords)}
      \cup {join(repeat(w, n)) : w \in {"hi", "long", "vlong"}, n \in 1..MaxRepeat}
      \cup {<<WS>>}

pad(t) == <<WS>> \o t \o <<WS>>

\* the text of a quoted message: none, blank, or words with blanks around
Quoted ==
    {<<>>, <<WS>>, <<WS, WS>>}
      \cup {pad(join(ws)) : ws \in SeqsUpTo(InputWords, MaxQuotedWords) \ {<<>>}}

Messages ==
    {[arg |-> a, isReply |-> FALSE, quoted |-> <<>>] : a \in Args}
      \cup {[arg |-> a, isReply |-> TRUE, quoted |-> q] : a \in {<<>>, <<"hi">>}, q \in Quoted}

Sticker == [kind |-> "sticker", body |-> "image/webp"]
UsageText == [kind |-> "text", body |-> "usage"]
FailureText == [kind |-> "text", body |-> "Gagal membuat stiker."]

NoRuns == [layout |-> 0, encode |-> 0, send |-> 0]

Init ==
    /\ msg \in Messages
    /\ pc = "recv"
    /\ text = <<>>
    /\ called = FALSE
    /\ words = <<>>
    /\ fontSize = 0
    /\ sol = NoSol
    /\ lineIdx = 0
    /\ parts = <<>>
    /\ partIdx = 0
    /\ cursorX = 0
    /\ svgString = NoMarkup
    /\ drawn = <<>>
    /\ ret = <<>>
    /\ encoded = FALSE
    /\ outbox = <<>>
    /\ failed = ""
    /\ runs = NoRuns
    /\ fetches = <<>>
    /\ inflight = {}

\* the text the /mkstr branch settles on
stickerTextOf(m) ==
    LET typed == trim(m.arg)
    IN  IF ~truthy(typed) /\ m.isReply
        THEN IF truthy(m.quoted) THEN m.quoted ELSE DefaultText
        ELSE typed

\* the /mkstr branch of the messages.upsert handler
Handler ==
    /\ pc = "recv"
    /\ LET stickerText == stickerTextOf(msg)
       IN  IF truthy(stickerText)
           THEN /\ text' = stickerText
                /\ called' = TRUE
                /\ pc' = "create"
                /\ UNCHANGED outbox
           ELSE /\ outbox' = Append(outbox, UsageText)
                /\ pc' = "done"
                /\ UNCHANGED <<text, called>>
    /\ UNCHANGED <<msg, words, fontSize, sol, lineIdx, parts, partIdx, cursorX,
                   svgString, drawn, ret, encoded, failed, runs, fetches, inflight>>

\* the guard that ends createSticker before any layout
noWords(ws) == Len(ws) = 0

\* createSticker up to the call of findOptimalFontSize
CreateSticker ==
    /\ pc = "create"
    /\ words' = split(trim(text))
    /\ IF noWords(words')
       THEN /\ pc' = "done"
            /\ UNCHANGED <<fontSize, runs>>
       ELSE /\ pc' = "solve"
            /\ fontSize' = StartFontSize
            /\ runs' = [runs EXCEPT !.layout = @ + 1]
    /\ UNCHANGED <<msg, text, called, sol, lineIdx, parts, partIdx, cursorX,
                   svgString, drawn, ret, encoded, outbox, failed, fetches, inflight>>

\* the condition of the size loop
inLoop(size) == size > MinFontSize

\* one pass of the size loop that ends in fontSize -= 2
RejectSize ==
    /\ pc = "solve"
    /\ inLoop(fontSize)
    /\ ~accepts(pack(words, fontSize), fontSize)
    /\ fontSize' = fontSize - FontStep
    /\ UNCHANGED <<msg, pc, text, called, words, sol, lineIdx, parts, partIdx,
                   cursorX, svgString, drawn, ret, encoded, outbox, failed, runs,
                   fetches, inflight>>

\* the pass of the size loop that returns
AcceptSize ==
    /\ pc = "solve"
    /\ inLoop(fontSize)
    /\ accepts(pack(words, fontSize), fontSize)
    /\ sol' = loopSolution(pack(words, fontSize), fontSize)
    /\ lineIdx' = 1
    /\ pc' = "render"
    /\ UNCHANGED <<msg, text, called, words, fontSize, parts, partIdx, cursorX,
                   svgString, drawn, ret, encoded, outbox, failed, runs, fetches,
                   inflight>>

\* the code after the size loop
Fallback ==
    /\ pc = "solve"
    /\ ~inLoop(fontSize)
    /\ sol' = fallbackSolution(words)
    /\ lineIdx' = 1
    /\ pc' = "render"
    /\ UNCHANGED <<msg, text, called, words, fontSize, parts, partIdx, cursorX,
                   svgString, drawn, ret, encoded, outbox, failed, runs, fetches,
                   inflight>>

----------------------------------------------------------------------------
(* Rendering, encoding and sending *)

Draw(op, x, y) == [line |-> lineIdx, part |-> partIdx, op |-> op, x |-> x, y |-> y]

\* createSticker: one pass of the render loop calls drawTextWithEmoji
StartLine ==
    /\ pc = "render"
    /\ lineIdx <= Len(sol.lines)
    /\ parts' = partsOf(sol.lines[lineIdx])
    /\ partIdx' = 1
    /\ cursorX' = margin
    /\ pc' = "draw"
    /\ UNCHANGED <<msg, text, called, words, fontSize, sol, lineIdx, svgString,
                   drawn, ret, encoded, outbox, failed, runs, fetches, inflight>>

\* what follows one part of the line
nextPart(i) == i + 1

\* drawTextWithEmoji: a text part
DrawText ==
    /\ pc = "draw"
    /\ partIdx <= Len(parts)
    /\ parts[partIdx].kind = "text"
    /\ drawn' = Append(drawn, Draw("text", cursorX, baselineOf(sol, lineIdx)))
    /\ cursorX' = cursorX + textAdvance(parts[partIdx], sol.fontSize)
    /\ partIdx' = nextPart(partIdx)
    /\ UNCHANGED <<msg, pc, text, called, words, fontSize, sol, lineIdx, parts,
                   svgString, ret, encoded, outbox, failed, runs, fetches, inflight>>

\* a variant of FetchGlyph that starts the fetch and does not await it
FetchGlyph_noAwait ==
    /\ pc = "draw"
    /\ partIdx <= Len(parts)
    /\ parts[partIdx].kind = "img"
    /\ fetches' = Append(fetches, <<lineIdx, partIdx>>)
    /\ inflight' = inflight \cup {<<lineIdx, partIdx>>}
    /\ partIdx' = partIdx + 1
    /\ UNCHANGED <<msg, pc, text, called, words, fontSize, sol, lineIdx, parts,
                   cursorX, svgString, drawn, ret, encoded, outbox, failed, runs>>

\* drawTextWithEmoji: an <img> part, up to the await of fetchFn(url)
FetchGlyph ==
    /\ pc = "draw"
    /\ partIdx <= Len(parts)
    /\ parts[partIdx].kind = "img"
    /\ fetches' = Append(fetches, <<lineIdx, partIdx>>)
    /\ inflight' = inflight \cup {<<lineIdx, partIdx>>}
    /\ pc' = "fetch"
    /\ UNCHANGED <<msg, text, called, words, fontSize, sol, lineIdx, parts,
                   partIdx, cursorX, svgString, drawn, ret, encoded, outbox,
                   failed, runs>>

\* the catch block of drawTextWithEmoji: the placeholder and its advance
placeholder ==
    /\ drawn' = Append(drawn, Draw("box", cursorX, baselineOf(sol, lineIdx)))
    /\ cursorX' = cursorX + placeholderAdvance(sol.fontSize)
    /\ partIdx' = nextPart(partIdx)
    /\ svgString' = NoMarkup
    /\ pc' = "draw"

\* fetchFn(url) or res.text() rejects
FetchFail ==
    /\ pc = "fetch"
    /\ inflight' = inflight \ {<<lineIdx, partIdx>>}
    /\ placeholder
    /\ UNCHANGED <<msg, text, called, words, fontSize, sol, lineIdx, parts, ret,
                   encoded, outbox, failed, runs, fetches>>

\* the markup arrives and is pre-processed
FetchOk ==
    /\ pc = "fetch"
    /\ \E asset \in Assets : svgString' = processSVG(asset) @@ [none |-> FALSE]
    /\ inflight' = inflight \ {<<lineIdx, partIdx>>}
    /\ pc' = "load"
    /\ UNCHANGED <<msg, text, called, words, fontSize, sol, lineIdx, parts,
                   partIdx, cursorX, drawn, ret, encoded, outbox, failed, runs,
                   fetches>>

\* loadImage(svgBuffer) rejects
LoadFail ==
    /\ pc = "load"
    /\ placeholder
    /\ UNCHANGED <<msg, text, called, words, fontSize, sol, lineIdx, parts, ret,
                   encoded, outbox, failed, runs, fetches, inflight>>

\* loadImage(svgBuffer) resolves and the glyph is drawn
LoadOk ==
    /\ pc = "load"
    /\ drawn' = Append(drawn, Draw("image", cursorX,
                                   emojiYOf(baselineOf(sol, lineIdx), sol.fontSize)))
    /\ cursorX' = cursorX + glyphAdvance(sol.fontSize)
    /\ partIdx' = nextPart(partIdx)
    /\ svgString' = NoMarkup
    /\ pc' = "draw"
    /\ UNCHANGED <<msg, text, called, words, fontSize, sol, lineIdx, parts, ret,
                   encoded, outbox, failed, runs, fetches, inflight>>

\* drawTextWithEmoji returns cursorX and the render loop moves on
LineDone ==
    /\ pc = "draw"
    /\ partIdx > Len(parts)
    /\ ret' = Append(ret, cursorX)
    /\ lineIdx' = lineIdx + 1
    /\ pc' = "render"
    /\ UNCHANGED <<msg, text, called, words, fontSize, sol, parts, partIdx,
                   cursorX, svgString, drawn, encoded, outbox, failed, runs,
                   fetches, inflight>>

\* canvas.toBuffer and sharp(...).toBuffer()
Encode ==
    /\ pc = "render"
    /\ lineIdx > Len(sol.lines)
    /\ runs' = [runs EXCEPT !.encode = @ + 1]
    /\ encoded' = TRUE
    /\ pc' = "send"
    /\ UNCHANGED <<msg, text, called, words, fontSize, sol, lineIdx, parts,
                   partIdx, cursorX, svgString, drawn, ret, outbox, failed,
                   fetches, inflight>>

\* sock.sendMessage(from, {sticker: webpBuffer, ...}) resolves
SendSticker ==
    /\ pc = "send"
    /\ runs' = [runs EXCEPT !.send = @ + 1]
    /\ outbox' = Append(outbox, Sticker)
    /\ pc' = "done"
    /\ UNCHANGED <<msg, text, called, words, fontSize, sol, lineIdx, parts,
                   partIdx, cursorX, svgString, drawn, ret, encoded, failed,
                   fetches, inflight>>

\* the stage that is running at a position of the try block, "" if none can throw
stageAt ==
    CASE pc = "solve" -> "layout"
      [] pc = "draw" /\ partIdx <= Len(parts) /\ parts[partIdx].kind = "text" -> "render"
      [] pc = "render" /\ lineIdx > Len(sol.lines) -> "encode"
      [] pc = "send" -> "send"
      [] OTHER -> ""

\* a stage of the try block throws: control goes to the catch of createSticker
Throw ==
    /\ stageAt # ""
    /\ failed' = stageAt
    /\ runs' = IF stageAt \in {"encode", "send"}
               THEN [runs EXCEPT ![stageAt] = @ + 1] ELSE runs
    /\ pc' = "catch"
    /\ UNCHANGED <<msg, text, called, words, fontSize, sol, lineIdx, parts,
                   partIdx, cursorX, svgString, drawn, ret, encoded, outbox,
                   fetches, inflight>>

\* a variant of Catch that only logs the error
Catch_silent ==
    /\ pc = "catch"
    /\ pc' = "done"
    /\ UNCHANGED <<msg, text, called, words, fontSize, sol, lineIdx, parts,
                   partIdx, cursorX, svgString, drawn, ret, encoded, outbox,
                   failed, runs, fetches, inflight>>

\* the catch block of createSticker
Catch ==
    /\ pc = "catch"
    /\ outbox' = Append(outbox, FailureText)
    /\ pc' = "done"
    /\ UNCHANGED <<msg, text, called, words, fontSize, sol, lineIdx, parts,
                   partIdx, cursorX, svgString, drawn, ret, encoded, failed, runs,
                   fetches, inflight>>

Next ==
    \/ Handler
    \/ CreateSticker
    \/ RejectSize
    \/ AcceptSize
    \/ Fallback
    \/ StartLine
    \/ DrawText
    \/ FetchGlyph
    \/ FetchFail
    \/ FetchOk
    \/ LoadFail
    \/ LoadOk
    \/ LineDone
    \/ Encode
    \/ SendSticker
    \/ Throw
    \/ Catch

Spec == Init /\ [][Next]_vars

\* the handler up to the return of the solver, with no call that throws
SolverNext ==
    \/ Handler
    \/ CreateSticker
    \/ RejectSize
    \/ AcceptSize
    \/ Fallback

\* the solver is synchronous code: once the handler runs it, it runs on to
\* its return
SolverSpec == Init /\ [][SolverNext]_vars /\ WF_vars(SolverNext)

----------------------------------------------------------------------------
(* Properties *)

RECURSIVE Flatten(_)
Flatten(ls) == IF ls = <<>> THEN <<>> ELSE Head(ls) \o Flatten(Tail(ls))

\* findOptimalFontSize has returned
Returned == sol # NoSol

\* the block height of a layout, in tenths of a pixel
BlockHeight(s) == Len(s.lines) * s.lineHeight

\* C1: every layout the solver returns has lineHeight = 1.2 x fontSize, and
\* its block height lines.length x lineHeight is at most the usable height
\* unless fontSize is the minimum font size 10
C1_LayoutInvariant ==
    Returned =>
        /\ sol.lineHeight * 10 = 12 * (sol.fontSize * 10)
        /\ (BlockHeight(sol) <= canvasHeight * 10 - 2 * margin \/ sol.fontSize = 10)

\* C1: the fallback has returned a layout that overflows the usable height
C1_Witness ==
    /\ Returned
    /\ sol.fontSize = 10
    /\ BlockHeight(sol) > canvasHeight * 10 - 2 * margin

\* C2: the words of the returned lines, concatenated in line order, are the
\* word sequence the solver was given: none dropped, duplicated, reordered
\* or split
C2_WordOrder == Returned => Flatten(sol.lines) = words

\* C2: a layout of several lines over at least three different words, on the
\* accepted path
C2_Witness ==
    /\ Returned
    /\ sol.fontSize > 10
    /\ Len(sol.lines) >= 2
    /\ Cardinality({words[i] : i \in 1..Len(words)}) >= 3

\* C2: a layout of several lines on the fallback path
C2_WitnessFallback ==
    /\ Returned
    /\ sol.fontSize = 10
    /\ Len(sol.lines) >= 2
    /\ Len(words) >= 3

\* a text with no word in it: empty, or whitespace only
Blank(t) == \A i \in 1..Len(t) : t[i] = WS

\* C3: createSticker called with an empty or whitespace-only text is a
\* no-op: no line is rendered, nothing is encoded and no message is sent
C3_BlankIsNoOp ==
    (called /\ Blank(text)) =>
        /\ sol = NoSol
        /\ drawn = <<>>
        /\ ret = <<>>
        /\ ~encoded
        /\ outbox = <<>>

\* the font sizes the loop tries: 120, 118, ..., 12
Candidates ==
    {s \in (MinFontSize + 1)..StartFontSize : (StartFontSize - s) % FontStep = 0}

\* no word is wider than the usable width at size s
NoWordTooWide(ws, s) ==
    \A i \in 1..Len(ws) : Em(ws[i]) * s <= canvasWidth * 10 - 2 * margin

\* size s passes both checks of the loop
Passes(ws, s) ==
    /\ NoWordTooWide(ws, s)
    /\ Len(pack(ws, s).lines) * 12 * s <= canvasHeight * 10 - 2 * margin

\* the solver has just returned
JustReturned == pc = "render" /\ lineIdx = 1

\* C4: when the solver returns, no candidate size larger than the returned
\* one passes both checks; a size returned by the loop is a candidate that
\* passes them; and every pass of the loop moves on from a size that fails
\* them only (the search stops at the first size that passes)
C4_LargestFittingSize ==
    /\ JustReturned => \A s \in Candidates : s > sol.fontSize => ~Passes(words, s)
    /\ (Returned /\ sol.fontSize > 10) => /\ sol.fontSize \in Candidates
                                          /\ Passes(words, sol.fontSize)
    /\ (pc = "solve" /\ fontSize < StartFontSize) => ~Passes(words, fontSize + FontStep)

\* C4: a size below 120 was accepted after larger ones were rejected, some
\* for a word too wide and some for the height
C4_Witness ==
    /\ Returned
    /\ sol.fontSize > 10
    /\ sol.fontSize < StartFontSize
    /\ \E s \in Candidates : s > sol.fontSize /\ ~NoWordTooWide(words, s)
    /\ \E s \in Candidates : s > sol.fontSize /\ NoWordTooWide(words, s)

\* the packing at the minimum font size fits the canvas
FitsAtMin(ws) ==
    /\ \A i \in 1..Len(ws) : Em(ws[i]) * 10 <= canvasWidth * 10 - 2 * margin
    /\ Len(pack(ws, 10).lines) * 120 <= canvasHeight * 10 - 2 * margin

\* the text the solver works on has a word in it
NonEmptyInput == ~Blank(text)

\* C5: for a non-empty input whose packing at 10 px fits the canvas, the
\* block height of the returned layout is at most the usable height
C5_FitsWhenMinFits ==
    (Returned /\ NonEmptyInput /\ FitsAtMin(words)) =>
        BlockHeight(sol) <= canvasHeight * 10 - 2 * margin

\* C5: 10 px is the only size that fits and the fallback returned it
C5_Witness ==
    /\ Returned
    /\ NonEmptyInput
    /\ FitsAtMin(words)
    /\ \A s \in Candidates : ~Passes(words, s)
    /\ sol.fontSize = 10
    /\ Len(sol.lines) >= 2

\* word i is wider than the usable width at every size from 120 down to 10
Oversized(ws, i) ==
    \A s \in Candidates \cup {MinFontSize} : Em(ws[i]) * s > canvasWidth * 10 - 2 * margin

HasOversized(ws) == \E i \in 1..Len(ws) : Oversized(ws, i)

\* the layout returned for an input with an oversized word is the fallback,
\* holds every word, and holds the oversized word whole on a line
OversizedGivesFallback ==
    (Returned /\ HasOversized(words)) =>
        /\ sol.fontSize = 10
        /\ sol.lineHeight = 120
        /\ Flatten(sol.lines) = words
        /\ \A i \in 1..Len(words) :
              Oversized(words, i) =>
                  \E l \in 1..Len(sol.lines) : \E k \in 1..Len(sol.lines[l]) :
                      sol.lines[l][k] = words[i]

\* C6: for an input with a word wider than the usable width at every size,
\* the solver terminates, and
\* what it returns is the fallback with fontSize 10 and lineHeight 12 that
\* holds every word, the oversized one whole on a line
C6_OversizedWord ==
    /\ [](OversizedGivesFallback)
    /\ ((pc = "solve" /\ HasOversized(words)) ~> Returned)

\* C6: the fallback returned a layout of several lines for an input with an
\* oversized word among others
C6_Witness ==
    /\ Returned
    /\ HasOversized(words)
    /\ Len(words) >= 3
    /\ Len(sol.lines) >= 2
    /\ sol.fontSize = 10

\* the drawing calls of line l, in the order they were made
LineDraws(l) == SelectSeq(drawn, LAMBDA e : e.line = l)

\* drawTextWithEmoji has returned for line l
Finished(l) == Len(ret) >= l

\* the cursor advance that followed drawing call e of a line with parts ps
AdvanceOf(e, ps) ==
    CASE e.op = "text"  -> textAdvance(ps[e.part], sol.fontSize)
      [] e.op = "image" -> glyphAdvance(sol.fontSize)
      [] e.op = "box"   -> sol.fontSize * 8

\* C7: a failed glyph fetch or decode does not abort the line: the box is
\* drawn at the current cursor on the baseline of the line, the cursor
\* advances by 0.8 x fontSize, every part of the line is drawn, once and in
\* order, and the cursor returned is greater than the cursor at the failure
C7_GlyphFailureAbsorbed ==
    \A l \in 1..Len(sol.lines) :
        LET d == LineDraws(l)
            ps == partsOf(sol.lines[l])
        IN  /\ Len(d) <= Len(ps)
            /\ \A j \in 1..Len(d) :
                  /\ d[j].part = j
                  /\ (d[j].op = "text") <=> (ps[j].kind = "text")
            /\ Finished(l) => Len(d) = Len(ps)
            /\ \A j \in 1..Len(d) :
                  d[j].op = "box" =>
                      /\ d[j].y = margin + sol.fontSize * 10 + (l - 1) * sol.lineHeight
                      /\ d[j].x = IF j = 1 THEN margin
                                  ELSE d[j - 1].x + AdvanceOf(d[j - 1], ps)
                      /\ j < Len(d) => d[j + 1].x = d[j].x + sol.fontSize * 8
                      /\ Finished(l) =>
                            /\ ret[l] > d[j].x
                            /\ j = Len(ps) => ret[l] = d[j].x + sol.fontSize * 8

\* C7: a finished line of text, failed glyph, text
C7_Witness ==
    \E l \in 1..Len(sol.lines) :
        /\ Finished(l)
        /\ \E j \in 2..(Len(LineDraws(l)) - 1) :
              /\ LineDraws(l)[j].op = "box"
              /\ LineDraws(l)[j - 1].op = "text"
              /\ LineDraws(l)[j + 1].op = "text"

C9_SizedMarkup == pc = "load" => (svgString.w /\ svgString.h)

RECURSIVE AccWidth(_, _, _)
\* the accumulated width after the first k words of a line: each word's
\* width plus one space width
AccWidth(line, k, s) ==
    IF k = 0 THEN 0
    ELSE AccWidth(line, k - 1, s) + Em(line[k]) * s + Em(WS) * s

\* ls is what the greedy rule makes of its own words at size s
GreedyLines(ls, s) ==
    /\ \A l \in 1..Len(ls) :
          /\ Len(ls[l]) >= 1
          /\ \A k \in 2..Len(ls[l]) :
                AccWidth(ls[l], k - 1, s) + Em(ls[l][k]) * s <= canvasWidth * 10 - 2 * margin
    /\ \A l \in 2..Len(ls) :
          AccWidth(ls[l - 1], Len(ls[l - 1]), s) + Em(ls[l][1]) * s
              > canvasWidth * 10 - 2 * margin

\* C10: at every size tried and in the fallback the lines are those of the
\* greedy rule: a word follows on a line only if accumulated width + word
\* width <= usable width, and every line after the first begins with a word
\* that did not fit on the line before it
C10_GreedyPacking ==
    /\ (pc = "solve" /\ fontSize > 10) => GreedyLines(pack(words, fontSize).lines, fontSize)
    /\ Returned => /\ GreedyLines(sol.lines, sol.fontSize)
                   /\ Flatten(sol.lines) = words

\* C10: a returned layout in which a line of several words is followed by
\* another line
C10_Witness ==
    /\ Returned
    /\ \E l \in 2..Len(sol.lines) : Len(sol.lines[l - 1]) >= 2 /\ Len(sol.lines[l]) >= 2

\* position <<line, part>> a comes before position b
Before(a, b) == a[1] < b[1] \/ (a[1] = b[1] /\ a[2] < b[2])

PosOf(e) == <<e.line, e.part>>

\* C11: drawing is strictly sequential: draws and fetches happen in line
\* order and, within a line, in part order; nothing of line l + 1 happens
\* before drawTextWithEmoji has returned for line l; at most one glyph fetch
\* is in flight, it is the last one started and nothing at or after its part
\* is drawn while it is; and every part is drawn at the cursor its
\* predecessor left (the left margin for the first part of a line)
C11_SequentialDrawing ==
    /\ \A i, j \in 1..Len(drawn) : i < j => Before(PosOf(drawn[i]), PosOf(drawn[j]))
    /\ \A i, j \in 1..Len(fetches) : i < j => Before(fetches[i], fetches[j])
    /\ \A i \in 1..Len(drawn) : drawn[i].line <= Len(ret) + 1
    /\ \A i \in 1..Len(fetches) : fetches[i][1] <= Len(ret) + 1
    /\ Cardinality(inflight) <= 1
    /\ inflight # {} =>
          /\ pc = "fetch"
          /\ inflight = {fetches[Len(fetches)]}
          /\ \A i \in 1..Len(drawn) : Before(PosOf(drawn[i]), fetches[Len(fetches)])
    /\ \A l \in 1..Len(sol.lines) :
          LET d == LineDraws(l)
              ps == partsOf(sol.lines[l])
          IN  /\ \A j \in 1..Len(d) :
                    /\ d[j].part = j
                    /\ d[j].x = IF j = 1 THEN margin
                                ELSE d[j - 1].x + AdvanceOf(d[j - 1], ps)
              /\ Finished(l) =>
                    /\ Len(d) = Len(ps)
                    /\ ret[l] = IF Len(d) = 0 THEN margin
                                ELSE d[Len(d)].x + AdvanceOf(d[Len(d)], ps)

\* C11: two lines are finished, one of them with two glyph fetches one after
\* the other, and a glyph of a later line has been fetched too
C11_Witness ==
    /\ Len(ret) >= 2
    /\ \E i \in 1..(Len(fetches) - 1) : fetches[i][1] = fetches[i + 1][1]
    /\ \E i, j \in 1..Len(fetches) : fetches[i][1] < fetches[j][1]

\* the laid-out width of a line at size s: its word widths plus one space
\* width between consecutive words
LaidOutWidth(line, s) ==
    IF Len(line) = 0 THEN 0 ELSE AccWidth(line, Len(line), s) - Em(WS) * s

\* C12: in a solution accepted inside the size loop (fontSize > 10) every
\* line's laid-out width is at most the usable width
C12_AcceptedLinesFit ==
    (Returned /\ sol.fontSize > 10) =>
        \A l \in 1..Len(sol.lines) :
            LaidOutWidth(sol.lines[l], sol.fontSize) <= canvasWidth * 10 - 2 * margin

\* C12: an accepted solution of several lines, one of them with several
\* words
C12_Witness ==
    /\ Returned
    /\ sol.fontSize > 10
    /\ Len(sol.lines) >= 2
    /\ \E l \in 1..Len(sol.lines) : Len(sol.lines[l]) >= 2

\* a fallback solution with a line wider than the usable width
C12_WitnessFallback ==
    /\ Returned
    /\ sol.fontSize = 10
    /\ \E l \in 1..Len(sol.lines) :
          LaidOutWidth(sol.lines[l], 10) > canvasWidth * 10 - 2 * margin

====
